---- MODULE Spec2Model ----
(***************************************************************************)
(* A model of the f1-telemetry packet decoder and of the display's poll    *)
(* loop.                                                                   *)
(*                                                                         *)
(*   - bytes are naturals 0..255, a buffer is a sequence of bytes, a       *)
(*     cursor position is a 0-based offset into it;                        *)
(*   - u8, i8 and u16 fields are numbers; u32, u64 and f32 fields are kept *)
(*     as the little-endian byte tuple read from the wire (no arithmetic   *)
(*     is done on them, and they do not fit TLC's integers);       *)
(*   - a Result is a record with tag "Ok" or "Err"; a Rust panic           *)
(*     (unwrap() on an I/O error, an index out of bounds, panic!) is the   *)
(*     third tag "Panic".                                                  *)
(***************************************************************************)
EXTENDS Integers, Sequences, FiniteSets, TLC

VARIABLES
    code, vres,            \* enum validators: the raw byte, the validators' results
    reader, csres,         \* car status decoder: the reader's bytes, its result
    pc, dgram, result,     \* poll loop: position, datagram polled, stream result
    active_window,         \* Ui: the window shown
    rendered, destroyed,   \* Ui: packets rendered, calls of Ui::destroy
    polls,                 \* number of polls so far
    stream, pending,       \* Stream: its state, the datagrams it holds
    received, yielded,     \* Stream: datagrams read, results yielded
    participants,          \* consumer: the participants packet held, if any
    lap_call, lapinfo,     \* parse_lap_data: its arguments, its result
    tele_call, teleinfo    \* parse_telemetry_data: its argument, its result

vars == <<code, vres, reader, csres, pc, dgram, result, active_window,
          rendered, destroyed, polls, stream, pending, received, yielded,
          participants, lap_call, lapinfo, tele_call, teleinfo>>

enumVars == <<code, vres>>
carVars  == <<reader, csres>>
streamVars == <<stream, pending, received, yielded>>
mainVars == <<pc, dgram, result, active_window, rendered, destroyed, polls, streamVars>>

consVars == <<participants, lap_call, lapinfo, tele_call, teleinfo>>

NotRun == [tag |-> "NotRun"]

----------------------------------------------------------------------------
(* Primitive reads                                                         *)

U8Max == 255

Byte == 0..U8Max

\* Option
None == [tag |-> "None"]
Some(v) == [tag |-> "Some", v |-> v]

\* `as i8` of a byte
AsI8(b) == IF b >= 128 THEN b - 256 ELSE b

\* the n bytes at 0-based offset pos
BytesAt(buf, pos, n) == SubSeq(buf, pos + 1, pos + n)

\* read_u16::<LittleEndian>
LE16(buf, pos) == buf[pos + 1] + 256 * buf[pos + 2]

Ok(v) == [ok |-> TRUE, v |-> v, what |-> "", value |-> 0]

\* UnpackError(format!("Invalid <what> value: {}", value))
Invalid(what, value) == [ok |-> FALSE, v |-> "", what |-> what, value |-> value]

----------------------------------------------------------------------------
(* Enum validators, f1_2019/car_status.rs                                  *)

TractionControl_default(value) ==
    CASE value = 0 -> Ok("Off")
      [] value = 1 -> Ok("Low")
      [] value = 2 -> Ok("High")
      [] OTHER -> Ok("Off")

TractionControl_try_from(value) ==
    CASE value = 0 -> Ok("Off")
      [] value = 1 -> Ok("Low")
      [] value = 2 -> Ok("High")
      [] OTHER -> Invalid("TractionControl", value)

FuelMix_try_from(value) ==
    CASE value = 0 -> Ok("Lean")
      [] value = 1 -> Ok("Standard")
      [] value = 2 -> Ok("Rich")
      [] value = 3 -> Ok("Max")
      [] OTHER -> Invalid("FuelMix", value)

\* the validator with the negative sentinel clamped to zero
DRS_clamped(value) ==
    CASE value = 0 -> Ok("NotAllowed")
      [] value = 1 -> Ok("Allowed")
      [] value = -1 -> Ok("NotAllowed")
      [] OTHER -> Invalid("DRS", value)

DRS_try_from(value) ==
    CASE value = 0 -> Ok("NotAllowed")
      [] value = 1 -> Ok("Allowed")
      [] value = -1 -> Ok("Unknown")
      [] OTHER -> Invalid("DRS", value)

TyreCompound_strict(value) ==
    CASE value = 16 -> Ok("C5")
      [] value = 17 -> Ok("C4")
      [] value = 18 -> Ok("C3")
      [] value = 19 -> Ok("C2")
      [] value = 20 -> Ok("C1")
      [] value = 7 -> Ok("Inter")
      [] value = 8 -> Ok("Wet")
      [] value = 9 -> Ok("ClassicDry")
      [] value = 10 -> Ok("ClassicWet")
      [] value = 11 -> Ok("F2SuperSoft")
      [] value = 12 -> Ok("F2Soft")
      [] value = 13 -> Ok("F2Medium")
      [] value = 14 -> Ok("F2Hard")
      [] value = 15 -> Ok("F2Wet")
      [] value = 0 -> Ok("Invalid")
      [] OTHER -> Invalid("TyreCompound", value)

TyreCompound_try_from(value) ==
    CASE value = 16 -> Ok("C5")
      [] value = 17 -> Ok("C4")
      [] value = 18 -> Ok("C3")
      [] value = 19 -> Ok("C2")
      [] value = 20 -> Ok("C1")
      [] value = 7 -> Ok("Inter")
      [] value = 8 -> Ok("Wet")
      [] value = 9 -> Ok("ClassicDry")
      [] value = 10 -> Ok("ClassicWet")
      [] value = 11 -> Ok("F2SuperSoft")
      [] value = 12 -> Ok("F2Soft")
      [] value = 13 -> Ok("F2Medium")
      [] value = 14 -> Ok("F2Hard")
      [] value = 15 -> Ok("F2Wet")
      [] value \in {0, 255} -> Ok("Invalid")
      [] OTHER -> Invalid("TyreCompound", value)

TyreCompoundVisual_try_from(value) ==
    CASE value = 16 -> Ok("Soft")
      [] value = 17 -> Ok("Medium")
      [] value = 18 -> Ok("Hard")
      [] value = 7 -> Ok("Inter")
      [] value = 8 -> Ok("Wet")
      [] value = 9 -> Ok("ClassicDry")
      [] value = 10 -> Ok("ClassicWet")
      [] value = 11 -> Ok("F2SuperSoft")
      [] value = 12 -> Ok("F2Soft")
      [] value = 13 -> Ok("F2Medium")
      [] value = 14 -> Ok("F2Hard")
      [] value = 15 -> Ok("F2Wet")
      [] value = 0 -> Ok("Invalid")
      [] OTHER -> Invalid("TyreCompoundVisual", value)

ERSDeployMode_try_from(value) ==
    CASE value = 0 -> Ok("None")
      [] value = 1 -> Ok("Low")
      [] value = 2 -> Ok("Medium")
      [] value = 3 -> Ok("High")
      [] value = 4 -> Ok("Overtake")
      [] value = 5 -> Ok("Hotlap")
      [] OTHER -> Invalid("ERSDeployMode", value)

\* packet/generic.rs is not part of the files modelled: the flag table of the wire
\* format (-1 unknown, 0 none, 1 green, 2 blue, 3 yellow, 4 red).
Flag_try_from(value) ==
    CASE value = -1 -> Ok("Unknown")
      [] value = 0 -> Ok("None")
      [] value = 1 -> Ok("Green")
      [] value = 2 -> Ok("Blue")
      [] value = 3 -> Ok("Yellow")
      [] value = 4 -> Ok("Red")
      [] OTHER -> Invalid("Flag", value)

\* All validators of the car status record applied to one raw byte.
Validate(b) ==
    [tag |-> "Done",
     tc |-> TractionControl_try_from(b),
     fm |-> FuelMix_try_from(b),
     drs |-> DRS_try_from(AsI8(b)),
     tyre |-> TyreCompound_try_from(b),
     visual |-> TyreCompoundVisual_try_from(b),
     ers |-> ERSDeployMode_try_from(b)]

----------------------------------------------------------------------------
(* parse_car and parse_car_status_data, f1_2019/car_status.rs              *)

NUM_CARS == 20

\* The reads of parse_car in statement order: the field each fills, the bytes
\* it consumes, and how the bytes become the field's value.  The four
\* read_u8 calls that fill a WheelData are one entry of width 4.
CarFields ==
    << [name |-> "traction_control",             width |-> 1, kind |-> "TractionControl"],
       [name |-> "anti_lock_brakes",             width |-> 1, kind |-> "bool"],
       [name |-> "fuel_mix",                     width |-> 1, kind |-> "FuelMix"],
       [name |-> "front_brake_bias",             width |-> 1, kind |-> "u8"],
       [name |-> "pit_limiter",                  width |-> 1, kind |-> "bool"],
       [name |-> "fuel_in_tank",                 width |-> 4, kind |-> "f32"],
       [name |-> "fuel_capacity",                width |-> 4, kind |-> "f32"],
       [name |-> "fuel_remaining_laps",          width |-> 4, kind |-> "f32"],
       [name |-> "max_rpm",                      width |-> 2, kind |-> "u16"],
       [name |-> "idle_rpm",                     width |-> 2, kind |-> "u16"],
       [name |-> "max_gears",                    width |-> 1, kind |-> "u8"],
       [name |-> "drs_allowed",                  width |-> 1, kind |-> "DRS"],
       [name |-> "tyres_wear",                   width |-> 4, kind |-> "wheels"],
       [name |-> "actual_tyre_compound",         width |-> 1, kind |-> "TyreCompound"],
       [name |-> "visual_tyre_compound",         width |-> 1, kind |-> "TyreCompoundVisual"],
       [name |-> "tyres_damage",                 width |-> 4, kind |-> "wheels"],
       [name |-> "front_left_wing_damage",       width |-> 1, kind |-> "u8"],
       [name |-> "front_right_wing_damage",      width |-> 1, kind |-> "u8"],
       [name |-> "rear_wing_damage",             width |-> 1, kind |-> "u8"],
       [name |-> "engine_damage",                width |-> 1, kind |-> "u8"],
       [name |-> "gear_box_damage",              width |-> 1, kind |-> "u8"],
       [name |-> "vehicle_fia_flags",            width |-> 1, kind |-> "Flag"],
       [name |-> "ers_store_energy",             width |-> 4, kind |-> "f32"],
       [name |-> "ers_deploy_mode",              width |-> 1, kind |-> "ERSDeployMode"],
       [name |-> "ers_harvested_this_lap_mguk",  width |-> 4, kind |-> "f32"],
       [name |-> "ers_harvested_this_lap_mguh",  width |-> 4, kind |-> "f32"],
       [name |-> "ers_deployed_this_lap",        width |-> 4, kind |-> "f32"] >>

\* The value one read produces: the raw read, then the conversion applied to it.
ReadField(kind, buf, pos) ==
    CASE kind = "u8"                 -> Ok(buf[pos + 1])
      [] kind = "bool"               -> Ok(buf[pos + 1] = 1)
      [] kind = "u16"                -> Ok(LE16(buf, pos))
      [] kind = "f32"                -> Ok(BytesAt(buf, pos, 4))
      [] kind = "wheels"             -> Ok(BytesAt(buf, pos, 4))
      [] kind = "TractionControl"    -> TractionControl_try_from(buf[pos + 1])
      [] kind = "FuelMix"            -> FuelMix_try_from(buf[pos + 1])
      [] kind = "DRS"                -> DRS_try_from(AsI8(buf[pos + 1]))
      [] kind = "TyreCompound"       -> TyreCompound_try_from(buf[pos + 1])
      [] kind = "TyreCompoundVisual" -> TyreCompoundVisual_try_from(buf[pos + 1])
      [] kind = "Flag"               -> Flag_try_from(AsI8(buf[pos + 1]))
      [] kind = "ERSDeployMode"      -> ERSDeployMode_try_from(buf[pos + 1])

NoCar == <<>>

\* The statements of parse_car from the k-th read on: read(...).unwrap()
\* panics when the reader holds too few bytes, try_from(...)? returns the
\* error at once, and otherwise the next statement runs.
RECURSIVE parse_fields(_, _, _, _, _), field_read(_, _, _, _, _, _)
field_read(fields, buf, pos, k, acc, r) ==
    IF ~r.ok
    THEN [tag |-> "Err", car |-> NoCar, pos |-> pos + fields[k].width,
          what |-> r.what, value |-> r.value]
    ELSE parse_fields(fields, buf, pos + fields[k].width, k + 1,
                      acc @@ (fields[k].name :> r.v))

parse_fields(fields, buf, pos, k, acc) ==
    IF k > Len(fields)
    THEN [tag |-> "Ok", car |-> acc, pos |-> pos, what |-> "", value |-> 0]
    ELSE IF pos + fields[k].width > Len(buf)
    THEN [tag |-> "Panic", car |-> NoCar, pos |-> pos, what |-> "unwrap", value |-> 0]
    ELSE field_read(fields, buf, pos, k, acc, ReadField(fields[k].kind, buf, pos))

\* CarFields with the two tyre compound reads exchanged
CarFields_swapped ==
    [k \in 1..Len(CarFields) |->
        IF k = 14 THEN CarFields[15] ELSE IF k = 15 THEN CarFields[14] ELSE CarFields[k]]

parse_car_swapped(buf, pos) == parse_fields(CarFields_swapped, buf, pos, 1, <<>>)

parse_car(buf, pos) == parse_fields(CarFields, buf, pos, 1, <<>>)

\* for _ in 0..20 { let csd = parse_car(&mut reader)?; car_status_data.push(csd); }
\* car_push is the loop body once parse_car returned csd.
RECURSIVE car_loop(_, _, _, _), car_push(_, _, _, _)
car_push(buf, n, acc, csd) ==
    IF csd.tag = "Ok"
    THEN car_loop(buf, csd.pos, n + 1, Append(acc, csd.car))
    ELSE [tag |-> csd.tag, cars |-> <<>>, pos |-> csd.pos,
          what |-> csd.what, value |-> csd.value]

car_loop(buf, pos, n, acc) ==
    IF n = NUM_CARS
    THEN [tag |-> "Ok", cars |-> acc, pos |-> pos, what |-> "", value |-> 0]
    ELSE car_push(buf, n, acc, parse_car(buf, pos))

\* PacketCarStatusData::new(header, car_status_data), or the loop's error
PacketCarStatusData_new(header, r) ==
    [tag |-> r.tag, header |-> header, car_status_data |-> r.cars,
     pos |-> r.pos, what |-> r.what, value |-> r.value]

\* the decoder with the records in reverse order
parse_car_status_data_rev(buf, pos, header) ==
    LET r == car_loop(buf, pos, 0, <<>>) IN
    PacketCarStatusData_new(header,
        [r EXCEPT !.cars = [i \in 1..Len(r.cars) |-> r.cars[Len(r.cars) + 1 - i]]])

\* Ok(PacketCarStatusData::new(header, car_status_data)), or the first error
parse_car_status_data(buf, pos, header) ==
    PacketCarStatusData_new(header, car_loop(buf, pos, 0, <<>>))

----------------------------------------------------------------------------
(* Header, f1_2019/header.rs                                               *)

\* PacketHeader::size()
PacketHeader_size == 24

\* The reads of parse_header in statement order.
HeaderFields ==
    << [name |-> "packet_format",      width |-> 2, kind |-> "u16"],
       [name |-> "game_major_version", width |-> 1, kind |-> "u8"],
       [name |-> "game_minor_version", width |-> 1, kind |-> "u8"],
       [name |-> "packet_version",     width |-> 1, kind |-> "u8"],
       [name |-> "packet_id",          width |-> 1, kind |-> "u8"],
       [name |-> "session_uid",        width |-> 8, kind |-> "u64"],
       [name |-> "session_time",       width |-> 4, kind |-> "f32"],
       [name |-> "frame_identifier",   width |-> 4, kind |-> "u32"],
       [name |-> "player_car_index",   width |-> 1, kind |-> "u8"] >>

NoHeader == <<>>

\* Every read is unwrap()ed; the last argument of PacketHeader::new, the
\* secondary player car index, is the constant 255.
RECURSIVE header_reads(_, _, _, _)
header_reads(buf, pos, k, acc) ==
    IF k > Len(HeaderFields)
    THEN [tag |-> "Ok", header |-> acc @@ ("secondary_player_car_index" :> 255),
          pos |-> pos]
    ELSE LET f == HeaderFields[k] IN
         IF pos + f.width > Len(buf)
         THEN [tag |-> "Panic", header |-> NoHeader, pos |-> pos]
         ELSE header_reads(buf, pos + f.width, k + 1,
                  acc @@ (f.name :> (CASE f.kind = "u8"  -> buf[pos + 1]
                                       [] f.kind = "u16" -> LE16(buf, pos)
                                       [] OTHER -> BytesAt(buf, pos, f.width))))

parse_header(buf) == header_reads(buf, 0, 1, <<>>)

----------------------------------------------------------------------------
(* Dispatcher: packet.rs (by format) and src/packet.rs (by packet type)    *)

\* A dispatch result.  set: the decoder set the datagram was handed to (0:
\* none); kind: the Packet variant; cursor: the offset the payload decoder
\* starts at; maxread: one past the highest buffer offset read.
Res(tag, set, kind, header, cursor, what, value, maxread, payload) ==
    [tag |-> tag, set |-> set, kind |-> kind, header |-> header, cursor |-> cursor,
     what |-> what, value |-> value, maxread |-> maxread, payload |-> payload]

Max(a, b) == IF a >= b THEN a ELSE b

\* impl TryFrom<u8> for PacketType
PacketType_try_from(value) ==
    CASE value = 0 -> Ok("Motion")
      [] value = 1 -> Ok("Session")
      [] value = 2 -> Ok("LapData")
      [] value = 3 -> Ok("Event")
      [] value = 4 -> Ok("Participants")
      [] value = 5 -> Ok("CarSetups")
      [] value = 6 -> Ok("CarTelemetry")
      [] value = 7 -> Ok("CarStatus")
      [] OTHER -> Invalid("PacketType", value)

\* lap and participants packets both wrapped in Packet::Lap
Variant_merged(ptype) == IF ptype \in {"LapData", "Participants"} THEN "Lap" ELSE ptype

\* The Packet variant a PacketType is wrapped in.
Variant(ptype) == IF ptype = "LapData" THEN "Lap" ELSE ptype

\* enum Packet
PacketVariants == {"Motion", "Session", "Lap", "Event", "Participants", "CarSetups",
                   "CarTelemetry", "CarStatus"}

\* Packet::header: match self { Packet::X(p) => p.header(), ... }
Packet_header(p) ==
    CASE p.kind = "Motion"       -> p.header
      [] p.kind = "Session"      -> p.header
      [] p.kind = "Lap"          -> p.header
      [] p.kind = "Event"        -> p.header
      [] p.kind = "Participants" -> p.header
      [] p.kind = "CarSetups"    -> p.header
      [] p.kind = "CarTelemetry" -> p.header
      [] p.kind = "CarStatus"    -> p.header

\* The payload decoders whose layouts are not part of the files modelled (session,
\* lap, event, participants, car telemetry): each returns its payload or
\* the first validation or truncation error.  body is the class of the
\* datagram's payload bytes under that layout.
payload_decode(ptype, body) ==
    CASE body = "valid"        -> [tag |-> "Ok",  what |-> "", value |-> 0]
      [] body = "invalid_code" -> [tag |-> "Err", what |-> "InvalidCode", value |-> 0]
      [] body = "short"        -> [tag |-> "Err", what |-> "Truncated", value |-> 0]

\* PacketSessionData: the fields that are Option
OptionalSessionFields ==
    {"forecast_accuracy", "ai_difficulty", "season_identifier", "weekend_identifier",
     "session_identifier", "pit_stop_window_ideal_lap", "pit_stop_window_latest_lap",
     "pit_stop_rejoin_position", "driving_assists"}

\* The optional fields as the session decoder of a decoder set fills them:
\* the earlier revision defines none of them, the later revision defines
\* them.
session_optional(set) ==
    [f \in OptionalSessionFields |-> IF set = 2019 THEN None ELSE Some("decoded")]

\* the payload kept of a decoded packet
payload_of(set, ptype) == IF ptype = "Session" THEN session_optional(set) ELSE <<>>

\* Ok(Packet::<Variant>(packet)) or the payload decoder's error
wrap_payload(set, ptype, header, cursor, d) ==
    Res(d.tag, set, IF d.tag = "Ok" THEN Variant(ptype) ELSE "",
        IF d.tag = "Ok" THEN header ELSE NoHeader, cursor, d.what, d.value, cursor,
        IF d.tag = "Ok" THEN payload_of(set, ptype) ELSE <<>>)

\* Ok(Packet::CarStatus(packet)) or the decoder's error
wrap_car_status(cursor, buflen, d) ==
    Res(d.tag, 2019, IF d.tag = "Ok" THEN "CarStatus" ELSE "",
        IF d.tag = "Ok" THEN d.header ELSE NoHeader, cursor, d.what, d.value,
        IF d.tag = "Panic" THEN buflen ELSE d.pos, d.car_status_data)

\* match packet_id { ... }
match_packet_id(packet, body, header, cursor, t) ==
    IF ~t.ok
    THEN Res("Err", 2019, "", NoHeader, cursor, t.what, t.value, cursor, <<>>)
    ELSE CASE t.v \in {"Session", "LapData", "Event", "Participants", "CarTelemetry"} ->
                wrap_payload(2019, t.v, header, cursor, payload_decode(t.v, body))
           [] t.v = "CarStatus" ->
                wrap_car_status(cursor, Len(packet),
                                parse_car_status_data(packet, cursor, header))
           [] OTHER ->
                Res("Err", 2019, "", NoHeader, cursor, "not implemented",
                    header.packet_id, cursor, <<>>)

\* after the size check: the header h is decoded, then the packet type
after_header(packet, body, h) ==
    IF h.tag = "Panic"
    THEN Res("Panic", 2019, "", NoHeader, h.pos, "unwrap", 0, Len(packet), <<>>)
    ELSE match_packet_id(packet, body, h.header, h.pos,
                         PacketType_try_from(h.header.packet_id))

\* parse_packet of the 2019 decoder set
f1_2019_parse_packet(size, packet, body) ==
    IF size < PacketHeader_size
    THEN Res("Err", 2019, "", NoHeader, 0, "too small", size, 0, <<>>)
    ELSE after_header(packet, body, parse_header(packet))

\* The 2020 decoder set is not part of the files modelled.  Its header carries the
\* secondary player car index as a 24th byte; its packet types are those of
\* enum PacketType, of which the variants of enum Packet are decoded.
F1_2020_HEADER_SIZE == 24

PacketType_2020(value) ==
    CASE value \in 0..7 -> PacketType_try_from(value)
      [] value = 8 -> Ok("FinalClassification")
      [] value = 9 -> Ok("LobbyInfo")
      [] OTHER -> Invalid("PacketType", value)

match_packet_id_2020(body, hd, t) ==
    IF ~t.ok
    THEN Res("Err", 2020, "", NoHeader, F1_2020_HEADER_SIZE, t.what, t.value,
             F1_2020_HEADER_SIZE, <<>>)
    ELSE IF t.v \in {"FinalClassification", "LobbyInfo"}
    THEN Res("Err", 2020, "", NoHeader, F1_2020_HEADER_SIZE, "not implemented",
             hd.packet_id, F1_2020_HEADER_SIZE, <<>>)
    ELSE wrap_payload(2020, t.v, hd, F1_2020_HEADER_SIZE, payload_decode(t.v, body))

after_header_2020(packet, body, h) ==
    IF h.tag = "Panic" \/ Len(packet) < F1_2020_HEADER_SIZE
    THEN Res("Panic", 2020, "", NoHeader, h.pos, "unwrap", 0, Len(packet), <<>>)
    ELSE match_packet_id_2020(body,
             [h.header EXCEPT !["secondary_player_car_index"] = packet[F1_2020_HEADER_SIZE]],
             PacketType_2020(h.header.packet_id))

f1_2020_parse_packet(size, packet, body) ==
    IF size < F1_2020_HEADER_SIZE
    THEN Res("Err", 2020, "", NoHeader, 0, "too small", size, 0, <<>>)
    ELSE after_header_2020(packet, body, parse_header(packet))

\* packet[0] as u16 | ((packet[1] as u16) << 8), with the bytes exchanged
parse_version_be(packet) == packet[2] + 256 * packet[1]

\* packet[0] as u16 | ((packet[1] as u16) << 8)
parse_version(packet) == packet[1] + 256 * packet[2]

\* the two bytes parse_version read count as read
with_version_read(r) == [r EXCEPT !.maxread = Max(2, r.maxread)]

\* the match with the two decoder sets exchanged
match_packet_format_swapped(packet_format, size, packet, body) ==
    CASE packet_format = 2019 -> f1_2020_parse_packet(size, packet, body)
      [] packet_format = 2020 -> f1_2019_parse_packet(size, packet, body)
      [] OTHER -> Res("Err", 0, "", NoHeader, 0, "unknown format", packet_format, 0, <<>>)

\* match packet_format { 2019 => ..., 2020 => ..., _ => Err(...) }
match_packet_format(packet_format, size, packet, body) ==
    CASE packet_format = 2019 -> f1_2019_parse_packet(size, packet, body)
      [] packet_format = 2020 -> f1_2020_parse_packet(size, packet, body)
      [] OTHER -> Res("Err", 0, "", NoHeader, 0, "unknown format", packet_format, 0, <<>>)

\* parse_packet of packet.rs.  Indexing packet[0] and packet[1] panics on a
\* slice shorter than two bytes.
parse_packet(size, packet, body) ==
    IF Len(packet) < 2
    THEN Res("Panic", 0, "", NoHeader, 0, "index out of bounds", 0, Len(packet), <<>>)
    ELSE with_version_read(match_packet_format(parse_version(packet), size, packet, body))

----------------------------------------------------------------------------
(* Inputs                                                                  *)

\* offset of the k-th read of a record within the record
RECURSIVE FieldOffset(_, _)
FieldOffset(fields, k) ==
    IF k = 1 THEN 0 ELSE FieldOffset(fields, k - 1) + fields[k - 1].width

CarSize == FieldOffset(CarFields, Len(CarFields)) + CarFields[Len(CarFields)].width

HeaderWidth == FieldOffset(HeaderFields, Len(HeaderFields))
                   + HeaderFields[Len(HeaderFields)].width

\* the positions of the coded fields in CarFields, in wire order
CodedFields == {k \in 1..Len(CarFields) :
                   CarFields[k].kind \in {"TractionControl", "FuelMix", "DRS", "TyreCompound",
                                          "TyreCompoundVisual", "Flag", "ERSDeployMode"}}

\* the read of a car record that covers each offset of the record
CarFieldAt ==
    [off \in 0..(CarSize - 1) |->
        CHOOSE k \in 1..Len(CarFields) :
            FieldOffset(CarFields, k) <= off
            /\ off < FieldOffset(CarFields, k) + CarFields[k].width]

\* offset of the k-th read of a car record
CarFieldOffset == [k \in 1..Len(CarFields) |-> FieldOffset(CarFields, k)]

\* A valid code for each coded field, different from slot to slot.
ValidCode(kind, slot) ==
    CASE kind = "TractionControl"    -> slot % 3
      [] kind = "FuelMix"            -> slot % 4
      [] kind = "DRS"                -> IF slot % 3 = 2 THEN 255 ELSE slot % 3
      [] kind = "TyreCompound"       -> 16 + (slot % 5)
      [] kind = "TyreCompoundVisual" -> 16 + (slot % 3)
      [] kind = "Flag"               -> slot % 5
      [] kind = "ERSDeployMode"      -> slot % 6

\* A well-formed car status payload of 20 records, every record different.
BasePayload ==
    [i \in 1..(NUM_CARS * CarSize) |->
        LET slot == (i - 1) \div CarSize
            off  == (i - 1) % CarSize
            k    == CarFieldAt[off]
        IN IF k \in CodedFields THEN ValidCode(CarFields[k].kind, slot)
           ELSE (7 * slot + off) % 256]

\* index in a payload of the byte of coded field k of a slot
PokeIndex(p) == p[1] * CarSize + CarFieldOffset[p[2]] + 1

\* BasePayload with the bytes of `pokes` (slot, field, byte) written over it.
CarStatusPayload(pokes) ==
    [i \in 1..(NUM_CARS * CarSize) |->
        IF \E p \in pokes : PokeIndex(p) = i
        THEN (CHOOSE p \in pokes : PokeIndex(p) = i)[3]
        ELSE BasePayload[i]]

\* the overwritten bytes tried: 200 is in no table, 255 is -1 as i8
Pokes == {<<slot, k, b>> : slot \in {0, 7, NUM_CARS - 1}, k \in CodedFields, b \in {200, 255}}

PokeSets ==
    {{}} \cup {{p} : p \in Pokes}
         \cup {{p, q} : p \in {x \in Pokes : x[3] = 200}, q \in {x \in Pokes : x[3] = 200}}

\* bytes a reader may hold beyond the 20 records
MaxExtra == 1

Prefix(seq, n) == SubSeq(seq, 1, n)

Readers ==
    {CarStatusPayload(ps) : ps \in PokeSets}
    \cup {Prefix(CarStatusPayload({}), n) :
             n \in {0, 1, CarSize - 1, CarSize, (NUM_CARS - 1) * CarSize,
                    NUM_CARS * CarSize - 1}}
    \cup {Prefix(CarStatusPayload({p}), n) :
             p \in {<<0, 1, 200>>, <<7, 3, 200>>, <<NUM_CARS - 1, 24, 200>>},
             n \in {CarSize, 8 * CarSize, NUM_CARS * CarSize - 1}}
    \cup {CarStatusPayload({}) \o [j \in 1..e |-> 0] : e \in 1..MaxExtra}

\* The 23 header bytes of a 2019 datagram.
HeaderBytes(lo, hi, id, idx) ==
    <<lo, hi, 1, 2, 1, id, 11, 12, 13, 14, 15, 16, 17, 18, 21, 22, 23, 24,
      31, 32, 33, 34, idx>>

V2019 == <<227, 7>>
V2020 == <<228, 7>>
VOne  == <<1, 0>>
VSwap == <<7, 227>>

Filler == <<255, 9, 9, 9>>

\* A datagram: its bytes, and the class of its payload under the layouts
\* that are not part of the files modelled.
Dg(data, body) == [data |-> data, body |-> body]

NoDgram == Dg(<<>>, "none")

FullDg(v, id, idx, body) == Dg(HeaderBytes(v[1], v[2], id, idx) \o Filler, body)

Datagrams ==
    {FullDg(v, id, 0, "valid") : v \in {V2019, V2020, VOne, VSwap}, id \in 0..10}
    \cup {FullDg(v, id, 0, body) : v \in {V2019, V2020}, id \in {1, 2, 6},
                                   body \in {"invalid_code", "short"}}
    \cup {Dg(Prefix(FullDg(v, 1, 0, "valid").data, n), "short") :
             v \in {V2019, V2020, VOne}, n \in {0, 1, 2, HeaderWidth - 1, HeaderWidth}}
    \cup {FullDg(V2019, 6, idx, "valid") : idx \in {NUM_CARS - 1, NUM_CARS, 255}}
    \cup {Dg(HeaderBytes(v[1], v[2], 1, 0) \o Filler \o extra, "valid") :
             v \in {V2019, V2020}, extra \in {<<0>>, Filler \o Filler}}
    \cup {Dg(HeaderBytes(227, 7, 7, 0) \o CarStatusPayload(ps), "valid") :
             ps \in {{}, {<<0, 1, 200>>}, {<<NUM_CARS - 1, 24, 200>>}}}

----------------------------------------------------------------------------
(* Stream (modelled from its contract) and the poll loop of main.rs         *)

\* capacity of the stream's receive buffer
BufCap == 1200

\* The receive buffer after a datagram was received into it: zeroed, then
\* the datagram's bytes from offset 0.
RecvBuf(data) == [i \in 1..BufCap |-> IF i <= Len(data) THEN data[i] ELSE 0]

Nothing == Res("Nothing", 0, "", NoHeader, 0, "", 0, 0, <<>>)

TransportError == Res("Err", 0, "", NoHeader, 0, "transport", 0, 0, <<>>)

\* Stream::next on a received datagram: Ok(Some(packet)) or Err(error)
Stream_next(d) == parse_packet(Len(d.data), RecvBuf(d.data), d.body)

\* polls the loop makes
MaxPolls == 2

\* Ui::switch_window
switch_window(active, window) == IF window = active THEN active ELSE window

\* Stream::next, first half: the non-blocking read of the transport
\* returned a datagram while the stream holds none
Recv_buffering(d) ==
    /\ pc = "poll" /\ polls < MaxPolls
    /\ Len(pending) < 2
    /\ stream' = "Ready"
    /\ pending' = Append(pending, d)
    /\ received' = received + 1
    /\ UNCHANGED <<pc, dgram, result, active_window, rendered, destroyed, polls,
                   yielded, enumVars, carVars, consVars>>

\* Stream::next, first half: the non-blocking read of the transport
\* returned a datagram; the stream moves from Idle to Ready.
Recv(d) ==
    /\ pc = "poll" /\ polls < MaxPolls
    /\ stream = "Idle"
    /\ stream' = "Ready"
    /\ pending' = Append(pending, d)
    /\ received' = received + 1
    /\ UNCHANGED <<pc, dgram, result, active_window, rendered, destroyed, polls,
                   yielded, enumVars, carVars, consVars>>

\* Stream::next, second half: the datagram held is dispatched, its one
\* result yielded, and the stream is Idle again
Yield ==
    /\ stream' = "Idle"
    /\ pending' = Tail(pending)
    /\ yielded' = yielded + 1
    /\ UNCHANGED received

\* match stream.next(): Ok(Some(p)) is rendered by the main renderer and by
\* the active window's renderer
PollPacket(d) ==
    /\ pc = "poll" /\ stream = "Ready" /\ pending # <<>> /\ d = Head(pending)
    /\ result' = Stream_next(d)
    /\ result'.tag = "Ok"
    /\ Yield
    /\ rendered' = rendered + 1
    /\ pc' = "key"
    /\ dgram' = d
    /\ polls' = polls + 1
    /\ UNCHANGED <<active_window, destroyed, enumVars, carVars, consVars>>

\* Ok(None) => sleep(Duration::from_millis(5))
PollNone ==
    /\ pc = "poll" /\ polls < MaxPolls
    /\ stream = "Idle"
    /\ result' = Nothing
    /\ dgram' = NoDgram
    /\ pc' = "key"
    /\ polls' = polls + 1
    /\ UNCHANGED <<active_window, rendered, destroyed, streamVars, enumVars, carVars, consVars>>

\* Err(_e) => panic!("{:?}", _e), for the error of a datagram's decode
PollDecodeError(d) ==
    /\ pc = "poll" /\ stream = "Ready" /\ pending # <<>> /\ d = Head(pending)
    /\ result' = Stream_next(d)
    /\ result'.tag \in {"Err", "Panic"}
    /\ Yield
    /\ pc' = "panicked"
    /\ dgram' = d
    /\ polls' = polls + 1
    /\ UNCHANGED <<active_window, rendered, destroyed, enumVars, carVars, consVars>>

\* an error of the transport handled as Ok(None) is: sleep, then poll again
PollTransportError_retry ==
    /\ pc = "poll" /\ polls < MaxPolls
    /\ stream = "Idle"
    /\ result' = TransportError
    /\ dgram' = NoDgram
    /\ pc' = "key"
    /\ polls' = polls + 1
    /\ UNCHANGED <<active_window, rendered, destroyed, streamVars, enumVars, carVars, consVars>>

\* Err(_e) => panic!("{:?}", _e), for an error of the transport
PollTransportError ==
    /\ pc = "poll" /\ polls < MaxPolls
    /\ stream = "Idle"
    /\ result' = TransportError
    /\ dgram' = NoDgram
    /\ pc' = "panicked"
    /\ polls' = polls + 1
    /\ UNCHANGED <<active_window, rendered, destroyed, streamVars, enumVars, carVars, consVars>>

Keys == {"none", "1", "2", "3", "q", "x"}

\* the key read with 'q' destroying the Ui without leaving the loop
Key_no_break(ch) ==
    /\ pc = "key"
    /\ active_window' = CASE ch = "1" -> switch_window(active_window, "Lap")
                          [] ch = "2" -> switch_window(active_window, "Car")
                          [] ch = "3" -> switch_window(active_window, "Track")
                          [] OTHER -> active_window
    /\ pc' = "poll"
    /\ destroyed' = IF ch = "q" THEN destroyed + 1 ELSE destroyed
    /\ UNCHANGED <<dgram, result, rendered, polls, streamVars, enumVars, carVars, consVars>>

\* ncurses::get_wch() and the match on the key; after `break`, ui.destroy()
Key(ch) ==
    /\ pc = "key"
    /\ active_window' = CASE ch = "1" -> switch_window(active_window, "Lap")
                          [] ch = "2" -> switch_window(active_window, "Car")
                          [] ch = "3" -> switch_window(active_window, "Track")
                          [] OTHER -> active_window
    /\ pc' = IF ch = "q" THEN "exited" ELSE "poll"
    /\ destroyed' = IF ch = "q" THEN destroyed + 1 ELSE destroyed
    /\ UNCHANGED <<dgram, result, rendered, polls, streamVars, enumVars, carVars, consVars>>

EnumIdle == code = 0 /\ vres = NotRun
CarIdle  == reader = <<>> /\ csres = NotRun
ConsIdle == /\ participants = None /\ lap_call = NotRun /\ lapinfo = NotRun
            /\ tele_call = NotRun /\ teleinfo = NotRun
MainIdle == /\ pc = "poll" /\ dgram = NoDgram /\ result = NotRun
            /\ active_window = "Lap" /\ rendered = 0 /\ destroyed = 0 /\ polls = 0
            /\ stream = "Idle" /\ pending = <<>> /\ received = 0 /\ yielded = 0

\* main: the stream is bound, the Ui initialised with the dashboard active
Init == MainIdle /\ EnumIdle /\ CarIdle /\ ConsIdle

Next ==
    \/ \E d \in Datagrams : Recv(d)
    \/ \E d \in Datagrams : PollPacket(d)
    \/ \E d \in Datagrams : PollDecodeError(d)
    \/ PollNone
    \/ PollTransportError
    \/ \E ch \in Keys : Key(ch)

Spec == Init /\ [][Next]_vars

----------------------------------------------------------------------------
(* The car status decoder on its own: any reader                          *)

SampleHeader == parse_header(HeaderBytes(227, 7, 7, 0)).header

InitCarStatus == reader \in Readers /\ csres = NotRun /\ MainIdle /\ EnumIdle /\ ConsIdle

RunParseCarStatus ==
    /\ csres = NotRun
    /\ csres' = parse_car_status_data(reader, 0, SampleHeader)
    /\ UNCHANGED <<reader, mainVars, enumVars, consVars>>

NextCarStatus == RunParseCarStatus

SpecCarStatus == InitCarStatus /\ [][NextCarStatus]_vars

----------------------------------------------------------------------------
(* The validators on their own: every byte                                *)

InitEnum == code \in Byte /\ vres = NotRun /\ MainIdle /\ CarIdle /\ ConsIdle

RunValidate ==
    /\ vres = NotRun
    /\ vres' = Validate(code)
    /\ UNCHANGED <<code, mainVars, carVars, consVars>>

NextEnum == RunValidate

SpecEnum == InitEnum /\ [][NextEnum]_vars

----------------------------------------------------------------------------
(* The consumer's functions of main.rs: parse_lap_data and                 *)
(* parse_telemetry_data, on packets as the decoders deliver them           *)

\* pit status of a lap record, from its wire code
PitStatus_try_from(value) ==
    CASE value = 0 -> Ok("None")
      [] value = 1 -> Ok("Pitting")
      [] value = 2 -> Ok("InPitArea")
      [] OTHER -> Invalid("PitStatus", value)

\* LapInfo { ... } with in_pit true only while pitting
LapInfo_pitting(ld, p) ==
    [position |-> ld.car_position, name |-> p.name, driver |-> p.driver,
     team |-> p.team, current_lap_time |-> ld.current_lap_time,
     last_lap_time |-> ld.last_lap_time, best_lap_time |-> ld.best_lap_time,
     status |-> ld.result_status, in_pit |-> (ld.pit_status = "Pitting"),
     lap_invalid |-> ld.current_lap_invalid, penalties |-> ld.penalties,
     lap_distance |-> ld.lap_distance, total_distance |-> ld.total_distance]

\* LapInfo { position: ld.car_position(), name: participants[i].name(), ... }
LapInfo(ld, p) ==
    [position |-> ld.car_position, name |-> p.name, driver |-> p.driver,
     team |-> p.team, current_lap_time |-> ld.current_lap_time,
     last_lap_time |-> ld.last_lap_time, best_lap_time |-> ld.best_lap_time,
     status |-> ld.result_status, in_pit |-> (ld.pit_status # "None"),
     lap_invalid |-> ld.current_lap_invalid, penalties |-> ld.penalties,
     lap_distance |-> ld.lap_distance, total_distance |-> ld.total_distance]

\* the loop with the participant taken from the slot before (slot 0 for
\* the first)
RECURSIVE lap_loop_shifted(_, _, _, _)
lap_loop_shifted(lds, ps, i, acc) ==
    IF i > Len(lds) THEN Some(acc)
    ELSE lap_loop_shifted(lds, ps, i + 1,
             Append(acc, LapInfo(lds[i], ps[IF i = 1 THEN 1 ELSE i - 1])))

\* for (i, ld) in lap_data.lap_data().iter().enumerate() { ... push }, then
\* Some(lap_info); participants[i] panics when i is out of bounds.  i is
\* the 1-based slot.
RECURSIVE lap_loop(_, _, _, _)
lap_loop(lds, ps, i, acc) ==
    IF i > Len(lds) THEN Some(acc)
    ELSE IF i > Len(ps) THEN [tag |-> "Panic"]
    ELSE lap_loop(lds, ps, i + 1, Append(acc, LapInfo(lds[i], ps[i])))

parse_lap_data(lap_data, parts) ==
    IF parts.tag = "None"
    THEN None
    ELSE lap_loop(lap_data.lap_data, parts.v.participants, 1, <<>>)

\* TelemetryInfo { speed: telemetry_data.speed(), ... }
TelemetryInfo(td) ==
    [speed |-> td.speed, throttle |-> td.throttle, brake |-> td.brake,
     gear |-> td.gear, engine_rpm |-> td.engine_rpm, drs |-> td.drs,
     rev_lights_percent |-> td.rev_lights_percent,
     engine_temperature |-> td.engine_temperature]

\* &telemetry_data.car_telemetry_data()[player_index as usize] panics when
\* the index is out of bounds
index_player(cars, player_index) ==
    IF player_index >= Len(cars)
    THEN [tag |-> "Panic", index |-> player_index]
    ELSE [tag |-> "Some", index |-> player_index, v |-> TelemetryInfo(cars[player_index + 1])]

parse_telemetry_data(telemetry_data) ==
    index_player(telemetry_data.car_telemetry_data,
                 telemetry_data.header.player_car_index)

\* the lap records of a lap-data packet, one per car; codes[k] is the pit
\* status code of the slots i with i % 3 = k - 1
LapSlots(codes) ==
    [i \in 1..NUM_CARS |->
        [car_position |-> NUM_CARS + 1 - i, current_lap_time |-> 60 + i,
         last_lap_time |-> 80 + i, best_lap_time |-> 70 + i, result_status |-> "Active",
         pit_status |-> PitStatus_try_from(codes[(i % 3) + 1]).v,
         current_lap_invalid |-> (i % 2 = 0), penalties |-> i % 4,
         lap_distance |-> 10 * i, total_distance |-> 1000 + i]]

LapPackets ==
    {[header |-> parse_header(HeaderBytes(227, 7, 2, idx)).header, lap_data |-> LapSlots(codes)] :
        idx \in {0, NUM_CARS - 1}, codes \in [1..3 -> 0..2]}

\* the participants of a participants packet, one per car
ParticipantSlots(k) ==
    [i \in 1..NUM_CARS |->
        [name |-> 100 * k + i, driver |-> (i + k) % NUM_CARS, team |-> (i * k) % 10]]

ParticipantsPackets ==
    {[header |-> parse_header(HeaderBytes(227, 7, 4, 0)).header,
      participants |-> ParticipantSlots(k)] : k \in 1..3}

\* the telemetry records of a car telemetry packet, one per car
TelemetrySlots ==
    [i \in 1..NUM_CARS |->
        [speed |-> 200 + i, throttle |-> i, brake |-> NUM_CARS - i, gear |-> i % 9,
         engine_rpm |-> 9000 + i, drs |-> (i % 2 = 1), rev_lights_percent |-> 5 * i - 5,
         engine_temperature |-> 90 + i]]

\* the packet of an Ok(Packet::CarTelemetry(..)) result
PacketCarTelemetryData(r) == [header |-> r.header, car_telemetry_data |-> TelemetrySlots]

TelemetryDatagrams ==
    {FullDg(v, 6, idx, "valid") :
        v \in {V2019, V2020}, idx \in {0, 1, NUM_CARS - 1, NUM_CARS, 254, 255}}

\* a participants packet arrives and is held
HoldParticipants(p) ==
    /\ participants' = Some(p)
    /\ UNCHANGED <<lap_call, lapinfo, tele_call, teleinfo, mainVars, enumVars, carVars>>

\* a lap-data packet arrives: parse_lap_data(&lap_data, &participants)
LapPacket(l) ==
    /\ lap_call' = [lap_data |-> l, participants |-> participants]
    /\ lapinfo' = parse_lap_data(l, participants)
    /\ UNCHANGED <<participants, tele_call, teleinfo, mainVars, enumVars, carVars>>

\* a car telemetry packet is decoded: parse_telemetry_data(&telemetry_data)
TelemetryPacket(d) ==
    /\ Stream_next(d).tag = "Ok"
    /\ Stream_next(d).kind = "CarTelemetry"
    /\ tele_call' = PacketCarTelemetryData(Stream_next(d))
    /\ teleinfo' = parse_telemetry_data(tele_call')
    /\ UNCHANGED <<participants, lap_call, lapinfo, mainVars, enumVars, carVars>>

InitConsumer == ConsIdle /\ MainIdle /\ EnumIdle /\ CarIdle

NextConsumer ==
    \/ \E p \in ParticipantsPackets : HoldParticipants(p)
    \/ \E l \in LapPackets : LapPacket(l)
    \/ \E d \in TelemetryDatagrams : TelemetryPacket(d)

SpecConsumer == InitConsumer /\ [][NextConsumer]_vars

----------------------------------------------------------------------------
(* Properties                                                              *)

\* the last poll received a datagram
Polled == dgram # NoDgram

\* the format version declared by the first two bytes of the receive buffer
DeclaredVersion == RecvBuf(dgram.data)[1] + 256 * RecvBuf(dgram.data)[2]

\* C1: parse_packet dispatches on the little-endian u16 in the first two
\* bytes: 2019 goes to the 2019 decoder set, 2020 to the 2020 decoder set,
\* and any other value is an unknown-format error that reaches no decoder
\* set.
C1_VersionDispatch ==
    Polled =>
        /\ DeclaredVersion = 2019 => result.set = 2019
        /\ DeclaredVersion = 2020 => result.set = 2020
        /\ DeclaredVersion \notin {2019, 2020} =>
              /\ result.tag = "Err" /\ result.what = "unknown format"
              /\ result.value = DeclaredVersion /\ result.set = 0

C1_Witness ==
    /\ Polled /\ Len(dgram.data) >= HeaderWidth
    /\ dgram.data[1] = 227 /\ dgram.data[2] = 7
    /\ result.set = 2019 /\ result.tag = "Ok"

\* C2: a datagram shorter than the minimum header width is answered with
\* the too-small error, and no byte at or beyond its length is read.
C2_ShortDatagramTooSmall ==
    (Polled /\ Len(dgram.data) < PacketHeader_size) =>
        /\ result.tag = "Err" /\ result.what = "too small"
        /\ result.maxread <= Len(dgram.data)

\* the 2019 decoder set decoded the header of the datagram
HeaderDecoded2019 ==
    /\ Polled /\ result.set = 2019
    /\ result.tag # "Panic" /\ result.what # "too small"

\* C3: after parse_header of the 2019 format the cursor has advanced by
\* exactly PacketHeader::size() bytes, the width of the minimum-size check.
C3_HeaderConsumesSize == HeaderDecoded2019 => result.cursor = PacketHeader_size

\* the stream yielded the decode error of a datagram
DecodeError == Polled /\ result.tag = "Err"

\* C4: a per-packet decode error leaves the poll loop running.
C4_DecodeErrorKeepsLoop == DecodeError => pc # "panicked"

\* the packet type ids each decoder set decodes
Implemented(version) ==
    IF version = 2019 THEN {1, 2, 3, 4, 6, 7} ELSE 0..7

\* a datagram with a complete header of a known format whose packet type id
\* has no decoder in that format
UnsupportedType ==
    /\ Polled /\ Len(dgram.data) >= PacketHeader_size
    /\ DeclaredVersion \in {2019, 2020}
    /\ dgram.data[6] \notin Implemented(DeclaredVersion)

\* C5: a packet type id without a decoder is an error value for that
\* datagram, never a Packet, and does not stop the stream.
C5_UnsupportedTypeIsError ==
    UnsupportedType =>
        /\ result.tag = "Err" /\ result.what \in {"PacketType", "not implemented"}
        /\ result.kind = ""
        /\ pc # "panicked"

\* the coded fields of the complete records of a payload that hold a code
\* outside their table, as (slot, field)
InvalidCoded(buf) ==
    {sk \in (0..(NUM_CARS - 1)) \X CodedFields :
        /\ sk[1] * CarSize + CarFieldOffset[sk[2]] < Len(buf)
        /\ ~ReadField(CarFields[sk[2]].kind, buf, sk[1] * CarSize + CarFieldOffset[sk[2]]).ok}

WireOffset(sk) == sk[1] * CarSize + CarFieldOffset[sk[2]]

FirstInvalid(buf) ==
    CHOOSE sk \in InvalidCoded(buf) :
        \A other \in InvalidCoded(buf) : WireOffset(sk) <= WireOffset(other)

CarStatusRun == csres # NotRun

\* C6: a car status payload shorter than 20 records is an error value
\* (Truncated, unless a coded field before the end is invalid): no panic, no
\* packet.
C6_ShortPayloadTruncated ==
    (CarStatusRun /\ Len(reader) < NUM_CARS * CarSize) =>
        /\ csres.tag = "Err"
        /\ InvalidCoded(reader) = {} => csres.what = "Truncated"

\* C7: a successful parse_car_status_data holds exactly 20 records, and
\* record i holds the fields decoded from the i-th consecutive record of the
\* payload.
C7_SlotsInOrder ==
    (CarStatusRun /\ csres.tag = "Ok") =>
        /\ Len(csres.car_status_data) = NUM_CARS
        /\ \A i \in 0..(NUM_CARS - 1) : \A k \in 1..Len(CarFields) :
              csres.car_status_data[i + 1][CarFields[k].name]
                  = ReadField(CarFields[k].kind, reader, i * CarSize + CarFieldOffset[k]).v

C7_Witness ==
    /\ CarStatusRun /\ csres.tag = "Ok"
    /\ Len(csres.car_status_data) = NUM_CARS
    /\ csres.car_status_data[1].front_brake_bias
           # csres.car_status_data[NUM_CARS].front_brake_bias

\* C8: when a coded field is invalid the decoder returns the error of the
\* first invalid coded field in wire order, and no packet.
C8_FirstInvalidReported ==
    (CarStatusRun /\ InvalidCoded(reader) # {}) =>
        /\ csres.tag = "Err"
        /\ csres.what = CarFields[FirstInvalid(reader)[2]].kind
        /\ csres.value = ReadField(CarFields[FirstInvalid(reader)[2]].kind, reader,
                                   WireOffset(FirstInvalid(reader))).value
        /\ csres.car_status_data = <<>>

C8_Witness ==
    /\ CarStatusRun /\ Len(reader) >= NUM_CARS * CarSize
    /\ Cardinality(InvalidCoded(reader)) = 2
    /\ csres.tag = "Err" /\ csres.what = "TyreCompound"

EnumRun == vres # NotRun

\* the result a table gives for a code: the variant at the code's place,
\* an error carrying the code outside the table
Tabled(r, table, what) ==
    IF code < Len(table)
    THEN r.ok /\ r.v = table[code + 1]
    ELSE ~r.ok /\ r.what = what /\ r.value = code

\* C9: TractionControl, FuelMix and ERSDeployMode map the codes of their
\* tables (0..2, 0..3, 0..5) to the tabled variant and every other byte to
\* an error; no byte outside a table gets a default variant.
C9_TablesExact ==
    EnumRun =>
        /\ Tabled(vres.tc, <<"Off", "Low", "High">>, "TractionControl")
        /\ Tabled(vres.fm, <<"Lean", "Standard", "Rich", "Max">>, "FuelMix")
        /\ Tabled(vres.ers, <<"None", "Low", "Medium", "High", "Overtake", "Hotlap">>,
                  "ERSDeployMode")

C9_Witness == EnumRun /\ code = 3 /\ ~vres.tc.ok /\ vres.fm.ok /\ vres.fm.v = "Max"

\* the tyre compounds of codes 7..20, in code order
CompoundTable ==
    <<"Inter", "Wet", "ClassicDry", "ClassicWet", "F2SuperSoft", "F2Soft", "F2Medium",
      "F2Hard", "F2Wet", "C5", "C4", "C3", "C2", "C1">>

\* C10: the tyre compound validator maps 0 and 255 to Invalid, 16 to C5,
\* 7..15 and 17..20 to their tabled variants, and every other byte (1..6,
\* 21..254) to an error.
C10_TyreCompoundTable ==
    EnumRun =>
        /\ code \in {0, 255} => vres.tyre.ok /\ vres.tyre.v = "Invalid"
        /\ code = 16 => vres.tyre.ok /\ vres.tyre.v = "C5"
        /\ code \in 7..20 => vres.tyre.ok /\ vres.tyre.v = CompoundTable[code - 6]
        /\ code \in (1..6) \cup (21..254) =>
              ~vres.tyre.ok /\ vres.tyre.what = "TyreCompound" /\ vres.tyre.value = code

C10_Witness == EnumRun /\ code = 255 /\ vres.tyre.ok /\ vres.tyre.v = "Invalid"

\* C11: the DRS validator keeps the negative sentinel: the byte of -1 maps
\* to Unknown (not to NotAllowed, the variant of 0), 0 to NotAllowed, 1 to
\* Allowed, and every other i8 value (-128..-2, 2..127) to an error.
C11_DrsSentinel ==
    EnumRun =>
        /\ code = 255 => vres.drs.ok /\ vres.drs.v = "Unknown" /\ vres.drs.v # "NotAllowed"
        /\ code = 0 => vres.drs.ok /\ vres.drs.v = "NotAllowed"
        /\ code = 1 => vres.drs.ok /\ vres.drs.v = "Allowed"
        /\ code \in 2..254 =>
              /\ ~vres.drs.ok /\ vres.drs.what = "DRS"
              /\ vres.drs.value = (IF code <= 127 THEN code ELSE code - 256)

C11_Witness == EnumRun /\ code = 255 /\ vres.drs.ok /\ vres.drs.v = "Unknown"


\* C13: the stream has the two states Idle and Ready; it holds no datagram
\* when Idle and exactly one when Ready, never more than one; it is Idle
\* whenever a poll has returned (the loop is at the key read, has exited or
\* has stopped on an error); a poll that found no datagram reports nothing
\* yet and leaves the stream Idle; and every datagram read has yielded
\* exactly one result, a Packet or a decode error, by the time the stream
\* is Idle again.
C13_StreamIdleReady ==
    /\ stream \in {"Idle", "Ready"}
    /\ Len(pending) <= 1
    /\ stream = "Idle" => pending = <<>> /\ yielded = received
    /\ stream = "Ready" => Len(pending) = 1 /\ received = yielded + 1 /\ pc = "poll"
    /\ pc # "poll" => stream = "Idle"
    /\ (pc = "key" /\ result = Nothing) =>
          stream = "Idle" /\ dgram = NoDgram /\ yielded = received
    /\ (Polled /\ stream = "Idle") => result.tag \in {"Ok", "Err", "Panic"}

C13_Witness ==
    /\ stream = "Idle" /\ received = 2 /\ yielded = 2
    /\ Polled /\ result.tag = "Ok" /\ pc = "key"

\* C14: a transport error stops the poll loop for good: the loop has left
\* by the panic that carries the error, and no step (no poll, no key read)
\* can follow.  A poll that found no data does not stop the loop: the loop
\* goes on to the key read and, unless the quit key is read, to another
\* poll.
C14_TransportErrorFatal ==
    /\ result = TransportError => pc = "panicked" /\ ~ENABLED Next
    /\ result = Nothing => pc \in {"key", "poll", "exited"}
    /\ (result = Nothing /\ pc = "key") => ENABLED Key("none")
    /\ (result = Nothing /\ pc = "poll" /\ stream = "Idle" /\ polls < MaxPolls) =>
          ENABLED PollNone

C14_Witness ==
    /\ result = TransportError /\ pc = "panicked" /\ polls = 2
    /\ dgram = NoDgram /\ destroyed = 0

\* parse_lap_data has returned lap information
LapInfoBuilt == lapinfo # NotRun /\ lapinfo.tag = "Some"

\* C15: in every car slot of the lap information built by parse_lap_data,
\* in_pit is false exactly when the slot's decoded pit status is the
\* variant of wire code 0 (no pit), and true for every other pit status.
C15_InPitFlag ==
    LapInfoBuilt =>
        \A i \in 1..Len(lapinfo.v) :
            lapinfo.v[i].in_pit
                = (lap_call.lap_data.lap_data[i].pit_status # PitStatus_try_from(0).v)

C15_Witness ==
    /\ LapInfoBuilt
    /\ \E i, j, k \in 1..NUM_CARS :
          /\ lap_call.lap_data.lap_data[i].pit_status = PitStatus_try_from(0).v
          /\ ~lapinfo.v[i].in_pit
          /\ lap_call.lap_data.lap_data[j].pit_status = PitStatus_try_from(1).v
          /\ lapinfo.v[j].in_pit
          /\ lap_call.lap_data.lap_data[k].pit_status = PitStatus_try_from(2).v
          /\ lapinfo.v[k].in_pit

\* C19: parse_lap_data returns None exactly when it was called with no
\* participants packet held, so no lap information exists before a
\* participants packet has arrived; otherwise it returns (without a panic
\* from indexing the participants) one LapInfo per lap slot, in slot order,
\* entry i made of lap slot i and participant slot i.
C19_LapInfoNeedsParticipants ==
    /\ participants = None => lapinfo \in {NotRun, None}
    /\ lapinfo # NotRun =>
          /\ lapinfo.tag \in {"None", "Some"}
          /\ lapinfo.tag = "None" <=> lap_call.participants = None
          /\ lapinfo.tag = "Some" =>
                /\ Len(lapinfo.v) = Len(lap_call.lap_data.lap_data)
                /\ \A i \in 1..Len(lapinfo.v) :
                      /\ lapinfo.v[i].position = lap_call.lap_data.lap_data[i].car_position
                      /\ lapinfo.v[i].lap_distance = lap_call.lap_data.lap_data[i].lap_distance
                      /\ lapinfo.v[i].name = lap_call.participants.v.participants[i].name
                      /\ lapinfo.v[i].driver = lap_call.participants.v.participants[i].driver
                      /\ lapinfo.v[i].team = lap_call.participants.v.participants[i].team

C19_Witness ==
    /\ LapInfoBuilt /\ Len(lapinfo.v) = NUM_CARS
    /\ lapinfo.v[NUM_CARS].name = lap_call.participants.v.participants[NUM_CARS].name
    /\ lapinfo.v[1].name # lapinfo.v[NUM_CARS].name

\* C20: the player car index parse_telemetry_data indexes the car
\* telemetry array with is within the array, 0..19, so the indexing never
\* goes out of bounds.
C20_PlayerIndexInBounds ==
    teleinfo # NotRun =>
        /\ teleinfo.tag = "Some"
        /\ teleinfo.index \in 0..(NUM_CARS - 1)

\* the poll yielded a decoded packet
Decoded == Polled /\ result.tag = "Ok"

\* the Packet variant of each packet-type id, ids 0 to 7
VariantOfId == <<"Motion", "Session", "Lap", "Event", "Participants", "CarSetups",
                 "CarTelemetry", "CarStatus">>

\* C17: a decoded datagram is one Packet variant, the one of the packet
\* id in the datagram's header, and Packet::header() of it is the header
\* read from that datagram's bytes: its format version is the version the
\* dispatcher selected the decoder set by, and its packet id, session uid
\* and player car index are the datagram's.
C17_HeaderOfSameDatagram ==
    Decoded =>
        /\ result.kind \in PacketVariants
        /\ dgram.data[6] \in 0..7
        /\ result.kind = VariantOfId[dgram.data[6] + 1]
        /\ Packet_header(result).packet_format = DeclaredVersion
        /\ Packet_header(result).packet_format = result.set
        /\ Packet_header(result).packet_id = dgram.data[6]
        /\ Packet_header(result).session_uid = SubSeq(dgram.data, 7, 14)
        /\ Packet_header(result).player_car_index = dgram.data[23]

C17_Witness ==
    /\ Decoded /\ polls = 2
    /\ result.kind = "Participants" /\ result.set = 2020
    /\ Packet_header(result).packet_format = 2020
    /\ Packet_header(result).packet_id = 4

\* C18: the quit key ends the loop: once it is read the loop has exited,
\* no step can follow (no poll, no decode, no key read), Ui::destroy has
\* run exactly once, and it has not run on any other path.  Nothing is
\* left half-done at the exit: the stream is Idle and holds no datagram,
\* every datagram read has yielded its result, and every result yielded
\* was a packet that has been rendered.
C18_QuitStopsLoop ==
    /\ destroyed = (IF pc = "exited" THEN 1 ELSE 0)
    /\ pc = "exited" =>
          /\ ~ENABLED Next
          /\ stream = "Idle" /\ pending = <<>>
          /\ yielded = received /\ rendered = yielded
          /\ polls >= 1 /\ result.tag \in {"Ok", "Nothing"}

C18_Witness ==
    /\ pc = "exited" /\ destroyed = 1
    /\ polls = 1 /\ result.tag = "Ok" /\ rendered = 1

\* the poll yielded a decoded session packet
SessionDecoded == Decoded /\ result.kind = "Session"

C21_CompoundValidatorsAgree ==
    (EnumRun /\ vres.tyre.ok /\ vres.tyre.v = "Invalid") =>
        vres.visual.ok /\ vres.visual.v = "Invalid"
====
